---------------------------- MODULE Spec2Model ----------------------------
(***************************************************************************)
(* TextDiff (src/src/index.ts): getTextDiffs(old, new) normalizes both     *)
(* strings, tokenizes them into word / separator tokens, aligns the token  *)
(* sequences by a longest common subsequence, turns the gaps between the   *)
(* matched pairs into change ranges, merges ranges separated only by       *)
(* separators and materializes one TextDiff per surviving range.           *)
(*                                                                         *)
(* A string is a sequence of UTF-16 code units; a code unit is written as  *)
(* a TLA+ string naming it.  Offsets are 0-based and half-open, as in the  *)
(* source; Slice converts to the 1-based sequences of TLA+.                *)
(***************************************************************************)
EXTENDS Integers, Sequences, FiniteSets, TLC

\* ------------------------------------------------------------ code units

\* Hangul conjoining jamo and the syllable they compose to under NFC:
\* U+1100 (choseong kiyeok) followed by U+1161 (jungseong a) composes to
\* U+AC00.  All three are letters (General_Category Lo).
CHO == "U+1100"
JUNG == "U+1161"
SYL == "U+AC00"

\* The code units outside [\p{L}\p{N}\p{M}] that the model uses.
SepChars == {" ", ","}

\* [\p{L}\p{N}\p{M}] on one code unit: every code unit of the model that is
\* not a space or a comma is a letter.
IsWordChar(c) == c \notin SepChars

\* String.prototype.slice(start, end) with 0 <= start <= end <= length.
Slice(s, start, end) == SubSeq(s, start + 1, end)

Max(x, y) == IF x >= y THEN x ELSE y

Min(x, y) == IF x <= y THEN x ELSE y

\* ------------------------------------------------------------ normalize

\* input.normalize("NFC") on the model's code units: the only canonical
\* composition among them is <U+1100, U+1161> -> U+AC00.  A U+1161 that
\* follows a U+1100 is absorbed into the syllable that replaces the U+1100.
Normalize(input) ==
    LET Composes(i) == i < Len(input) /\ input[i] = CHO /\ input[i + 1] = JUNG
        Absorbed(i) == i > 1 /\ input[i - 1] = CHO /\ input[i] = JUNG
        kept == SelectSeq([i \in 1..Len(input) |-> i], LAMBDA i : ~Absorbed(i))
    IN  [k \in 1..Len(kept) |-> IF Composes(kept[k]) THEN SYL ELSE input[kept[k]]]

\* ------------------------------------------------------------ tokenize

\* /[\p{L}\p{N}\p{M}]/u.test(value)
HasWordChar(value) == \E k \in 1..Len(value) : IsWordChar(value[k])

\* RunEnd with a lazy quantifier in WORD_REGEX: a match stops after one
\* code unit.
RunEndLazy(s, start, e) == e

\* The end (exclusive, 0-based) of the maximal run of code units of the same
\* class as s[start] that begins at offset start.
RECURSIVE RunEnd(_, _, _)
RunEnd(s, start, e) ==
    IF e < Len(s) /\ IsWordChar(s[e + 1]) = IsWordChar(s[start + 1])
    THEN RunEnd(s, start, e + 1)
    ELSE e

\* Intl.Segmenter with granularity "word" (UAX #29 word boundaries) on the
\* model's code units: letters stay together (WB5), spaces stay together
\* (WB3d), and there is a boundary before and after every other code unit
\* (WB999), so each comma is a segment of its own.  The segments partition
\* the string; isWordLike is true of the letter segments only.
RECURSIVE SegmentEnd(_, _, _)
SegmentEnd(s, start, e) ==
    IF /\ e < Len(s)
       /\ \/ IsWordChar(s[start + 1]) /\ IsWordChar(s[e + 1])
          \/ s[start + 1] = " " /\ s[e + 1] = " "
    THEN SegmentEnd(s, start, e + 1)
    ELSE e

RECURSIVE SegmentsFrom(_, _)
SegmentsFrom(s, index) ==
    IF index >= Len(s) THEN <<>>
    ELSE LET e == SegmentEnd(s, index, index + 1)
         IN  <<[segment |-> Slice(s, index, e), index |-> index,
                isWordLike |-> IsWordChar(s[index + 1])]>>
             \o SegmentsFrom(s, e)

Segments(s) == SegmentsFrom(s, 0)

\* The loop of the segmenter path from segment k on: a separator token for
\* any text between the cursor and the segment, then the segment's own
\* token; after the last segment, a separator token for any text left.
RECURSIVE SegmenterLoop(_, _, _, _)
SegmenterLoop(normalized, segments, k, cursor) ==
    IF k > Len(segments)
    THEN IF cursor < Len(normalized)
         THEN <<[kind |-> "sep",
                 value |-> Slice(normalized, cursor, Len(normalized)),
                 start |-> cursor, end |-> Len(normalized)]>>
         ELSE <<>>
    ELSE LET seg == segments[k]
             gap == IF seg.index > cursor
                    THEN <<[kind |-> "sep",
                            value |-> Slice(normalized, cursor, seg.index),
                            start |-> cursor, end |-> seg.index]>>
                    ELSE <<>>
             tok == [kind |-> IF seg.isWordLike THEN "word" ELSE "sep",
                     value |-> seg.segment,
                     start |-> seg.index,
                     end |-> seg.index + Len(seg.segment)]
         IN  (gap \o <<tok>>)
             \o SegmenterLoop(normalized, segments, k + 1, seg.index + Len(seg.segment))

\* RegexExec with a matcher that has the word alternative only: the search
\* skips separators to the next word run.
RegexExecWordsOnly(s, lastIdx) ==
    LET wordStarts == {k \in lastIdx..(Len(s) - 1) : IsWordChar(s[k + 1])}
    IN  IF wordStarts = {}
        THEN [matched |-> FALSE, index |-> 0, value |-> <<>>, lastIndex |-> 0]
        ELSE LET first == CHOOSE k \in wordStarts : \A x \in wordStarts : k <= x
                 e == RunEnd(s, first, first + 1)
             IN  [matched |-> TRUE, index |-> first,
                  value |-> Slice(s, first, e), lastIndex |-> e]

\* RegexExec with a matcher that keeps lastIndex when the match fails.
RegexExecNoReset(s, lastIdx) ==
    IF lastIdx >= Len(s)
    THEN [matched |-> FALSE, index |-> 0, value |-> <<>>, lastIndex |-> lastIdx]
    ELSE LET e == RunEnd(s, lastIdx, lastIdx + 1)
         IN  [matched |-> TRUE, index |-> lastIdx,
              value |-> Slice(s, lastIdx, e), lastIndex |-> e]

\* WORD_REGEX.exec(s) with the matcher's lastIndex: the global matcher
\* searches from lastIndex; every code unit belongs to one of the two
\* alternatives, so a match, if any, starts at lastIndex and is the maximal
\* run of that class.  A failed match returns null and resets lastIndex to 0.
RegexExec(s, lastIdx) ==
    IF lastIdx >= Len(s)
    THEN [matched |-> FALSE, index |-> 0, value |-> <<>>, lastIndex |-> 0]
    ELSE LET e == RunEnd(s, lastIdx, lastIdx + 1)
         IN  [matched |-> TRUE, index |-> lastIdx,
              value |-> Slice(s, lastIdx, e), lastIndex |-> e]

\* The regex fallback loop from the matcher's position on: tokens until exec
\* returns null.  The result carries the matcher's lastIndex after the loop.
RECURSIVE RegexLoop(_, _)
RegexLoop(normalized, lastIdx) ==
    LET match == RegexExec(normalized, lastIdx)
    IN  IF ~match.matched
        THEN [tokens |-> <<>>, lastIndex |-> match.lastIndex]
        ELSE LET rest == RegexLoop(normalized, match.lastIndex)
                 tok == [kind |-> IF HasWordChar(match.value) THEN "word" ELSE "sep",
                         value |-> match.value,
                         start |-> match.index,
                         end |-> match.index + Len(match.value)]
             IN  [tokens |-> <<tok>> \o rest.tokens, lastIndex |-> rest.lastIndex]

\* tokenize(text) in a host whose Intl.Segmenter is "available", "throws"
\* (the constructor or segment() raises, before any token is pushed) or is
\* "absent".  Returns the tokens and the module-level matcher's lastIndex.
Tokenize(text, host, lastIdx) ==
    LET normalized == Normalize(text)
        useSegmenter == host # "absent"
    IN  IF useSegmenter /\ host # "throws"
        THEN [tokens |-> SegmenterLoop(normalized, Segments(normalized), 1, 0),
              lastIndex |-> lastIdx]
        ELSE RegexLoop(normalized, lastIdx)

\* ------------------------------------------------------------ lcsIndicesTokens

\* The dp table is kept in the order it is filled: a row holds dp[i][m],
\* dp[i][m-1], .., dp[i][0] and the table holds the rows n, n - 1, .., 0.
DpRowAt(row, m, j) == row[m - j + 1]

DpAt(dp, n, m, i, j) == DpRowAt(dp[n - i + 1], m, j)

\* dp[i][m], .., dp[i][j], filled from j = m - 1 down out of row i + 1
\* (below); dp[i][m] is 0.
RECURSIVE DpRow(_, _, _, _, _)
DpRow(a, b, i, below, j) ==
    IF j >= Len(b) THEN <<0>>
    ELSE LET right == DpRow(a, b, i, below, j + 1)
         IN  Append(right,
                    IF a[i + 1].value = b[j + 1].value
                    THEN DpRowAt(below, Len(b), j + 1) + 1
                    ELSE Max(DpRowAt(below, Len(b), j), DpRowAt(right, Len(b), j + 1)))

\* The rows n, .., i, filled from i = n - 1 down; row n is all zero.
RECURSIVE DpRows(_, _, _)
DpRows(a, b, i) ==
    IF i >= Len(a) THEN <<[j \in 1..(Len(b) + 1) |-> 0]>>
    ELSE LET lower == DpRows(a, b, i + 1)
         IN  Append(lower, DpRow(a, b, i, lower[Len(lower)], 0))

DpTable(a, b) == DpRows(a, b, 0)

\* LcsWalk with the two pointer moves swapped.
RECURSIVE LcsWalkSwapped(_, _, _, _, _)
LcsWalkSwapped(a, b, dp, i, j) ==
    IF ~(i < Len(a) /\ j < Len(b)) THEN <<>>
    ELSE IF a[i + 1].value = b[j + 1].value
         THEN <<(<<i, j>>)>> \o LcsWalkSwapped(a, b, dp, i + 1, j + 1)
         ELSE IF DpAt(dp, Len(a), Len(b), i + 1, j) >= DpAt(dp, Len(a), Len(b), i, j + 1)
              THEN LcsWalkSwapped(a, b, dp, i, j + 1)
              ELSE LcsWalkSwapped(a, b, dp, i + 1, j)

\* The forward reconstruction from (i, j): on a mismatch the old pointer
\* advances when dp[i+1][j] >= dp[i][j+1].
RECURSIVE LcsWalk(_, _, _, _, _)
LcsWalk(a, b, dp, i, j) ==
    IF ~(i < Len(a) /\ j < Len(b)) THEN <<>>
    ELSE IF a[i + 1].value = b[j + 1].value
         THEN <<(<<i, j>>)>> \o LcsWalk(a, b, dp, i + 1, j + 1)
         ELSE IF DpAt(dp, Len(a), Len(b), i + 1, j) >= DpAt(dp, Len(a), Len(b), i, j + 1)
              THEN LcsWalk(a, b, dp, i + 1, j)
              ELSE LcsWalk(a, b, dp, i, j + 1)

lcsIndicesTokens(a, b) == LcsWalk(a, b, DpTable(a, b), 0, 0)

\* ------------------------------------------------------------ levenshtein

\* curr[0..j] (curr[0] at index 1) of row i out of prev.
RECURSIVE LevRow(_, _, _, _, _)
LevRow(a, b, i, prev, j) ==
    IF j = 0 THEN <<i>>
    ELSE LET left == LevRow(a, b, i, prev, j - 1)
             cost == IF a[i] = b[j] THEN 0 ELSE 1
             cell == Min(Min(prev[j + 1] + 1, left[j] + 1), prev[j] + cost)
         IN  Append(left, cell)

\* The successive values of prev: the initial row and the rows 1..i.
RECURSIVE LevRows(_, _, _)
LevRows(a, b, i) ==
    IF i = 0 THEN <<[j \in 1..(Len(b) + 1) |-> j - 1]>>
    ELSE LET above == LevRows(a, b, i - 1)
         IN  Append(above, LevRow(a, b, i, above[Len(above)], Len(b)))

levenshtein(a, b) ==
    IF a = b THEN 0
    ELSE IF Len(a) = 0 THEN Len(b)
    ELSE IF Len(b) = 0 THEN Len(a)
    ELSE LevRows(a, b, Len(a))[Len(a) + 1][Len(b) + 1]

\* ------------------------------------------------------------ classifyChange

\* tokens.filter(t => t.kind === "word")
RECURSIVE WordsOf(_)
WordsOf(toks) ==
    IF Len(toks) = 0 THEN <<>>
    ELSE (IF toks[1].kind = "word" THEN <<toks[1]>> ELSE <<>>) \o WordsOf(Tail(toks))

\* Math.ceil(0.3 * maxLen): the double nearest 0.3 lies below 3/10 by less
\* than 2^-54, so for every string length the product rounds to a double
\* with the ceiling of 3 * maxLen / 10.
CeilThreeTenths(maxLen) == (3 * maxLen + 9) \div 10

\* classifyChange without the floor of 2 on the threshold.
classifyChangeNoFloor(oldTokSlice, newTokSlice, oldSlice, newSlice) ==
    IF Len(oldSlice) = 0 /\ Len(newSlice) > 0 THEN "insert"
    ELSE IF Len(newSlice) = 0 /\ Len(oldSlice) > 0 THEN "delete"
    ELSE LET oldWords == WordsOf(oldTokSlice)
             newWords == WordsOf(newTokSlice)
         IN  IF /\ Len(oldWords) = 1
                /\ Len(newWords) = 1
                /\ LET d == levenshtein(oldWords[1].value, newWords[1].value)
                       maxLen == Max(Len(oldWords[1].value), Len(newWords[1].value))
                   IN  d > 0 /\ d <= CeilThreeTenths(maxLen)
             THEN "spell-correction"
             ELSE "replace"

classifyChange(oldTokSlice, newTokSlice, oldSlice, newSlice) ==
    IF Len(oldSlice) = 0 /\ Len(newSlice) > 0 THEN "insert"
    ELSE IF Len(newSlice) = 0 /\ Len(oldSlice) > 0 THEN "delete"
    ELSE LET oldWords == WordsOf(oldTokSlice)
             newWords == WordsOf(newTokSlice)
         IN  IF /\ Len(oldWords) = 1
                /\ Len(newWords) = 1
                /\ LET d == levenshtein(oldWords[1].value, newWords[1].value)
                       maxLen == Max(Len(oldWords[1].value), Len(newWords[1].value))
                   IN  d > 0 /\ d <= Max(2, CeilThreeTenths(maxLen))
             THEN "spell-correction"
             ELSE "replace"

\* ------------------------------------------------------------ getTextDiffs

\* Array.prototype.slice(start, end) on a token array.
TokSlice(toks, start, end) == SubSeq(toks, start + 1, end)

AllSep(toks) == \A k \in 1..Len(toks) : toks[k].kind = "sep"

\* ExtractLoop that emits a range only when both sides are non-empty.
RECURSIVE ExtractLoopBothSides(_, _, _, _, _, _)
ExtractLoopBothSides(pairs, nOld, nNew, k, prevOld, prevNew) ==
    IF k > Len(pairs) THEN <<>>
    ELSE LET nextOld == IF k < Len(pairs) THEN pairs[k + 1][1] ELSE nOld
             nextNew == IF k < Len(pairs) THEN pairs[k + 1][2] ELSE nNew
             out == IF nextOld > prevOld /\ nextNew > prevNew
                    THEN <<[oldTokStart |-> prevOld, oldTokEnd |-> nextOld,
                            newTokStart |-> prevNew, newTokEnd |-> nextNew]>>
                    ELSE <<>>
         IN  out \o ExtractLoopBothSides(pairs, nOld, nNew, k + 1, nextOld + 1, nextNew + 1)

\* ExtractChanges whose ranges start at the matched token, not after it.
ExtractChangesKeepAnchor(pairs, nOld, nNew) ==
    [k \in 1..(Len(pairs) + 1) |->
        [oldTokStart |-> IF k = 1 THEN 0 ELSE pairs[k - 1][1],
         oldTokEnd |-> IF k <= Len(pairs) THEN pairs[k][1] ELSE nOld,
         newTokStart |-> IF k = 1 THEN 0 ELSE pairs[k - 1][2],
         newTokEnd |-> IF k <= Len(pairs) THEN pairs[k][2] ELSE nNew]]

\* The range extraction loop from k on: k runs over the matched pairs and
\* one position past them, where the token counts are the anchors.
RECURSIVE ExtractLoop(_, _, _, _, _, _)
ExtractLoop(pairs, nOld, nNew, k, prevOld, prevNew) ==
    IF k > Len(pairs) THEN <<>>
    ELSE LET nextOld == IF k < Len(pairs) THEN pairs[k + 1][1] ELSE nOld
             nextNew == IF k < Len(pairs) THEN pairs[k + 1][2] ELSE nNew
             out == IF nextOld > prevOld \/ nextNew > prevNew
                    THEN <<[oldTokStart |-> prevOld, oldTokEnd |-> nextOld,
                            newTokStart |-> prevNew, newTokEnd |-> nextNew]>>
                    ELSE <<>>
         IN  out \o ExtractLoop(pairs, nOld, nNew, k + 1, nextOld + 1, nextNew + 1)

ExtractChanges(pairs, nOld, nNew) == ExtractLoop(pairs, nOld, nNew, 0, 0, 0)

\* Mergeable that merges only ranges with no token between them.
MergeableAdjacentOnly(oldToks, newToks, last, ch) ==
    last.oldTokEnd >= ch.oldTokStart /\ last.newTokEnd >= ch.newTokStart

\* Whether ch is merged into last: only separators lie between them on the
\* old side and on the new side.
Mergeable(oldToks, newToks, last, ch) ==
    LET onlySepsBetweenOld ==
            IF last.oldTokEnd <= ch.oldTokStart
            THEN AllSep(TokSlice(oldToks, last.oldTokEnd, ch.oldTokStart))
            ELSE TRUE
        onlySepsBetweenNew ==
            IF last.newTokEnd <= ch.newTokStart
            THEN AllSep(TokSlice(newToks, last.newTokEnd, ch.newTokStart))
            ELSE TRUE
    IN  onlySepsBetweenOld /\ onlySepsBetweenNew

RECURSIVE MergeLoop(_, _, _, _, _)
MergeLoop(oldToks, newToks, chs, k, merged) ==
    IF k > Len(chs) THEN merged
    ELSE LET ch == chs[k]
             n == Len(merged)
         IN  IF n > 0 /\ Mergeable(oldToks, newToks, merged[n], ch)
             THEN MergeLoop(oldToks, newToks, chs, k + 1,
                      [merged EXCEPT ![n] = [@ EXCEPT !.oldTokEnd = ch.oldTokEnd,
                                                      !.newTokEnd = ch.newTokEnd]])
             ELSE MergeLoop(oldToks, newToks, chs, k + 1, Append(merged, ch))

MergeChanges(oldToks, newToks, chs) == MergeLoop(oldToks, newToks, chs, 1, <<>>)

\* OldSpan that places an empty old span at offset 0.
OldSpanAtZero(oldToks, ch) ==
    IF ch.oldTokEnd > ch.oldTokStart
    THEN [startIndex |-> oldToks[ch.oldTokStart + 1].start,
          endIndex |-> oldToks[ch.oldTokEnd].end]
    ELSE [startIndex |-> 0, endIndex |-> 0]

\* The old-side offsets of a range: its tokens' span, or, for an empty old
\* span, the end of the token before it (0 at the very start).
OldSpan(oldToks, ch) ==
    IF ch.oldTokEnd > ch.oldTokStart
    THEN [startIndex |-> oldToks[ch.oldTokStart + 1].start,
          endIndex |-> oldToks[ch.oldTokEnd].end]
    ELSE LET leftIdx == ch.oldTokStart - 1
             oldStart == IF leftIdx >= 0 THEN oldToks[leftIdx + 1].end ELSE 0
         IN  [startIndex |-> oldStart, endIndex |-> oldStart]

\* NewSlice that ends at the first new token of the range.
NewSliceFirstToken(newStr, newToks, ch) ==
    IF ch.newTokEnd > ch.newTokStart
    THEN Slice(newStr, newToks[ch.newTokStart + 1].start, newToks[ch.newTokStart + 1].end)
    ELSE <<>>

\* The new text of a range: the slice spanned by its new tokens, or "".
NewSlice(newStr, newToks, ch) ==
    IF ch.newTokEnd > ch.newTokStart
    THEN Slice(newStr, newToks[ch.newTokStart + 1].start, newToks[ch.newTokEnd].end)
    ELSE <<>>

\* The diff of one merged range; ranges whose slices are equal are skipped.
DiffOf(oldStr, newStr, oldToks, newToks, ch) ==
    LET pos == OldSpan(oldToks, ch)
        oldSlice == Slice(oldStr, pos.startIndex, pos.endIndex)
        newSlice == NewSlice(newStr, newToks, ch)
    IN  IF oldSlice = newSlice THEN <<>>
        ELSE <<[oldText |-> oldSlice,
                position |-> pos,
                newText |-> newSlice,
                changeType |->
                    classifyChange(TokSlice(oldToks, ch.oldTokStart, ch.oldTokEnd),
                                   TokSlice(newToks, ch.newTokStart, ch.newTokEnd),
                                   oldSlice, newSlice)]>>

RECURSIVE BuildLoop(_, _, _, _, _, _)
BuildLoop(oldStr, newStr, oldToks, newToks, merged, k) ==
    IF k > Len(merged) THEN <<>>
    ELSE DiffOf(oldStr, newStr, oldToks, newToks, merged[k])
         \o BuildLoop(oldStr, newStr, oldToks, newToks, merged, k + 1)

BuildDiffs(oldStr, newStr, oldToks, newToks, merged) ==
    BuildLoop(oldStr, newStr, oldToks, newToks, merged, 1)

\* getTextDiffs as one function, in a host and with the matcher at lastIdx.
getTextDiffs(oldTextInput0, newTextInput0, host, lastIdx) ==
    LET oldStr == Normalize(oldTextInput0)
        newStr == Normalize(newTextInput0)
        oldTok == Tokenize(oldStr, host, lastIdx)
        newTok == Tokenize(newStr, host, oldTok.lastIndex)
        pairs == lcsIndicesTokens(oldTok.tokens, newTok.tokens)
        chs == ExtractChanges(pairs, Len(oldTok.tokens), Len(newTok.tokens))
        merged == MergeChanges(oldTok.tokens, newTok.tokens, chs)
    IN  IF oldStr = newStr THEN <<>>
        ELSE BuildDiffs(oldStr, newStr, oldTok.tokens, newTok.tokens, merged)

\* ------------------------------------------------------------ inputs

\* The longest input string drawn from the alphabet.
MaxLen == 3

\* The longest input string in a sequence of calls, and the number of calls
\* that follow the first one.
MaxCallLen == 1

MaxCalls == 2

Alphabet == {CHO, JUNG, ","}

RECURSIVE StringsUpTo(_)
StringsUpTo(n) ==
    IF n = 0 THEN {<<>>}
    ELSE LET shorter == StringsUpTo(n - 1)
         IN  shorter \cup {Append(s, c) : s \in shorter, c \in Alphabet}

\* The strings over the alphabet, decomposed and precomposed.
InputsUpTo(n) == StringsUpTo(n) \cup {Normalize(s) : s \in StringsUpTo(n)}

\* The inputs of the README's usage example.
ReadmeOld ==
    <<"T","h","e"," ","q","u","i","c","k"," ","b","r","o","w","n"," ","f","o","x"," ",
      "j","u","m","p","s"," ","o","v","e","r"," ","t","h","e"," ","l","a","z","y"," ",
      "d","o","g">>

ReadmeNew ==
    <<"T","h","e"," ","f","a","s","t"," ","d","a","r","k"," ","w","o","l","f"," ",
      "l","e","a","p","s"," ","o","v","e","r"," ","t","h","e"," ","l","a","z","y"," ",
      "d","o","g">>

QuickBrownFox == <<"q","u","i","c","k"," ","b","r","o","w","n"," ","f","o","x">>

FastDarkWolf == <<"f","a","s","t"," ","d","a","r","k"," ","w","o","l","f">>

\* Short documented inputs, and single-word changes at and past the
\* spell-correction threshold of long words.
WordExamples ==
    { <<QuickBrownFox, FastDarkWolf>>,
      <<<<>>, <<"n","e","w">>>>,
      <<<<"o","l","d">>, <<>>>>,
      <<<<"c","o","l","o","r">>, <<"c","o","l","o","u","r">>>>,
      <<<<"c","a","t">>, <<"d","o","g">>>>,
      <<<<"a","b","c","d","e","f","g">>, <<"a","b","c","d","x","y","z">>>>,
      <<<<"a","b","c","d","e","f","g">>, <<"a","b","c","w","x","y","z">>>>,
      <<<<"a",","," ","b">>, <<"c",","," ","d">>>> }

Examples ==
    WordExamples \cup { <<ReadmeOld, ReadmeNew>>, <<ReadmeOld, ReadmeOld>>,
                        <<<<CHO, JUNG>>, <<SYL>>>> }

Hosts == {"available", "throws", "absent"}

\* ------------------------------------------------------------ state

VARIABLES
    oldTextInput,   \* the first argument of the call in progress
    newTextInput,   \* its second argument
    segmenter,      \* the host's Intl.Segmenter: "available", "throws", "absent"
    lastIndex,      \* WORD_REGEX.lastIndex, the module-level matcher's position
    pc,             \* the position of the call in getTextDiffs
    oldText,        \* the locals of getTextDiffs
    newText,
    oldTokens,
    newTokens,
    lcs,
    changes,
    mergedChanges,
    diffs,          \* the value returned
    calls           \* the number of calls that have returned before this one

vars == <<oldTextInput, newTextInput, segmenter, lastIndex, pc, oldText, newText,
          oldTokens, newTokens, lcs, changes, mergedChanges, diffs, calls>>

\* A call that has just been entered: its locals are not yet assigned.
Entered(old, new) ==
    /\ oldTextInput = old
    /\ newTextInput = new
    /\ pc = "start"
    /\ oldText = <<>>
    /\ newText = <<>>
    /\ oldTokens = <<>>
    /\ newTokens = <<>>
    /\ lcs = <<>>
    /\ changes = <<>>
    /\ mergedChanges = <<>>
    /\ diffs = <<>>

Init ==
    /\ segmenter \in Hosts
    /\ lastIndex = 0
    /\ calls = 0
    /\ \E args \in (InputsUpTo(MaxLen) \X InputsUpTo(MaxLen)) \cup WordExamples :
           Entered(args[1], args[2])

\* const oldText = normalize(oldTextInput); const newText = normalize(newTextInput)
NormalizeInputs ==
    /\ pc = "start"
    /\ oldText' = Normalize(oldTextInput)
    /\ newText' = Normalize(newTextInput)
    /\ pc' = "normalized"
    /\ UNCHANGED <<calls, oldTextInput, newTextInput, segmenter, lastIndex, oldTokens,
                   newTokens, lcs, changes, mergedChanges, diffs>>

\* if (oldText === newText) return []
ReturnIdentical ==
    /\ pc = "normalized"
    /\ oldText = newText
    /\ diffs' = <<>>
    /\ pc' = "done"
    /\ UNCHANGED <<calls, oldTextInput, newTextInput, segmenter, lastIndex, oldText, newText,
                   oldTokens, newTokens, lcs, changes, mergedChanges>>

\* const oldTokens = tokenize(oldText)
TokenizeOld ==
    /\ pc = "normalized"
    /\ oldText # newText
    /\ LET r == Tokenize(oldText, segmenter, lastIndex)
       IN  /\ oldTokens' = r.tokens
           /\ lastIndex' = r.lastIndex
    /\ pc' = "tokenizedOld"
    /\ UNCHANGED <<calls, oldTextInput, newTextInput, segmenter, oldText, newText,
                   newTokens, lcs, changes, mergedChanges, diffs>>

\* const newTokens = tokenize(newText)
TokenizeNew ==
    /\ pc = "tokenizedOld"
    /\ LET r == Tokenize(newText, segmenter, lastIndex)
       IN  /\ newTokens' = r.tokens
           /\ lastIndex' = r.lastIndex
    /\ pc' = "tokenized"
    /\ UNCHANGED <<calls, oldTextInput, newTextInput, segmenter, oldText, newText,
                   oldTokens, lcs, changes, mergedChanges, diffs>>

\* const lcs = lcsIndicesTokens(oldTokens, newTokens)
Align ==
    /\ pc = "tokenized"
    /\ lcs' = lcsIndicesTokens(oldTokens, newTokens)
    /\ pc' = "aligned"
    /\ UNCHANGED <<calls, oldTextInput, newTextInput, segmenter, lastIndex, oldText, newText,
                   oldTokens, newTokens, changes, mergedChanges, diffs>>

\* the loop that fills changes
ExtractRanges ==
    /\ pc = "aligned"
    /\ changes' = ExtractChanges(lcs, Len(oldTokens), Len(newTokens))
    /\ pc' = "extracted"
    /\ UNCHANGED <<calls, oldTextInput, newTextInput, segmenter, lastIndex, oldText, newText,
                   oldTokens, newTokens, lcs, mergedChanges, diffs>>

\* the loop that fills mergedChanges
MergeRanges ==
    /\ pc = "extracted"
    /\ mergedChanges' = MergeChanges(oldTokens, newTokens, changes)
    /\ pc' = "merged"
    /\ UNCHANGED <<calls, oldTextInput, newTextInput, segmenter, lastIndex, oldText, newText,
                   oldTokens, newTokens, lcs, changes, diffs>>

\* the loop that fills diffs; return diffs
ReturnDiffs ==
    /\ pc = "merged"
    /\ diffs' = BuildDiffs(oldText, newText, oldTokens, newTokens, mergedChanges)
    /\ pc' = "done"
    /\ UNCHANGED <<calls, oldTextInput, newTextInput, segmenter, lastIndex, oldText, newText,
                   oldTokens, newTokens, lcs, changes, mergedChanges>>

Next ==
    \/ NormalizeInputs
    \/ ReturnIdentical
    \/ TokenizeOld
    \/ TokenizeNew
    \/ Align
    \/ ExtractRanges
    \/ MergeRanges
    \/ ReturnDiffs

Spec == Init /\ [][Next]_vars

\* A sequence of calls in one module instance: after a call has returned,
\* the next one is entered with fresh locals; the matcher is the module's.
NextCall ==
    /\ pc = "done"
    /\ calls < MaxCalls
    /\ calls' = calls + 1
    /\ \E old \in InputsUpTo(MaxCallLen), new \in InputsUpTo(MaxCallLen) :
           /\ oldTextInput' = old
           /\ newTextInput' = new
    /\ pc' = "start"
    /\ oldText' = <<>>
    /\ newText' = <<>>
    /\ oldTokens' = <<>>
    /\ newTokens' = <<>>
    /\ lcs' = <<>>
    /\ changes' = <<>>
    /\ mergedChanges' = <<>>
    /\ diffs' = <<>>
    /\ UNCHANGED <<segmenter, lastIndex>>

InitCalls ==
    /\ segmenter \in Hosts
    /\ lastIndex = 0
    /\ calls = 0
    /\ \E old \in InputsUpTo(MaxCallLen), new \in InputsUpTo(MaxCallLen) :
           Entered(old, new)

NextCalls == Next \/ NextCall

SpecCalls == InitCalls /\ [][NextCalls]_vars

\* The documented examples alone.
InitExamples ==
    /\ segmenter \in Hosts
    /\ lastIndex = 0
    /\ calls = 0
    /\ \E args \in Examples : Entered(args[1], args[2])

SpecExamples == InitExamples /\ [][Next]_vars


\* lcsIndicesTokens on token arrays of its own: every code unit of a string
\* a token, as the segmenter tokenizes text whose words are single code
\* units.
MaxTokens == 4

AlignAlphabet == {"a", "b", ","}

RECURSIVE AlignStrings(_)
AlignStrings(n) ==
    IF n = 0 THEN {<<>>}
    ELSE LET shorter == AlignStrings(n - 1)
         IN  shorter \cup {Append(s, c) : s \in shorter, c \in AlignAlphabet}

UnitTokens(s) ==
    [k \in 1..Len(s) |-> [kind |-> IF IsWordChar(s[k]) THEN "word" ELSE "sep",
                          value |-> <<s[k]>>,
                          start |-> k - 1,
                          end |-> k]]

InitAlign ==
    /\ segmenter = "available"
    /\ lastIndex = 0
    /\ calls = 0
    /\ pc = "tokenized"
    /\ \E old \in AlignStrings(MaxTokens), new \in AlignStrings(MaxTokens) :
           /\ oldTextInput = old
           /\ newTextInput = new
           /\ oldText = old
           /\ newText = new
           /\ oldTokens = UnitTokens(old)
           /\ newTokens = UnitTokens(new)
    /\ lcs = <<>>
    /\ changes = <<>>
    /\ mergedChanges = <<>>
    /\ diffs = <<>>

SpecAlign == InitAlign /\ [][Align]_vars

\* ------------------------------------------------------------ properties

Returned == pc = "done"

\* The states in which oldTokens, respectively newTokens, hold the result of
\* a tokenize call.
OldTokenized == pc \in {"tokenizedOld", "tokenized", "aligned", "extracted", "merged"}

NewTokenized == pc \in {"tokenized", "aligned", "extracted", "merged"}

Aligned == pc \in {"aligned", "extracted", "merged"}

Merged == pc = "merged"

\* C1: the call returns the empty list exactly when the NFC forms of its
\* two arguments are equal.
C1_EmptyIffNormalizedEqual ==
    Returned => (diffs = <<>> <=> Normalize(oldTextInput) = Normalize(newTextInput))

\* C1's case: two different arguments with one NFC form, and an empty result.
C1_Witness ==
    /\ Returned
    /\ oldTextInput # newTextInput
    /\ Normalize(oldTextInput) = Normalize(newTextInput)
    /\ diffs = <<>>

\* C3: the returned diffs have strictly increasing position.startIndex.
C3_StartIndexStrictlyIncreasing ==
    Returned =>
        \A k \in 1..(Len(diffs) - 1) :
            diffs[k].position.startIndex < diffs[k + 1].position.startIndex

\* C3's case: two diffs are returned and the later one is an insertion with
\* an empty old span.
C3_Witness ==
    /\ Returned
    /\ Len(diffs) >= 2
    /\ diffs[2].position.startIndex = diffs[2].position.endIndex
    /\ diffs[2].changeType = "insert"

\* The tokens are ordered and contiguous and cover s exactly, each with the
\* slice of s it spans as its value.
Tiles(toks, s) ==
    /\ Len(toks) = 0 => Len(s) = 0
    /\ Len(toks) > 0 => toks[1].start = 0 /\ toks[Len(toks)].end = Len(s)
    /\ \A k \in 1..(Len(toks) - 1) : toks[k].end = toks[k + 1].start
    /\ \A k \in 1..Len(toks) :
           /\ 0 <= toks[k].start
           /\ toks[k].start < toks[k].end
           /\ toks[k].end <= Len(s)
           /\ toks[k].value = [x \in 1..(toks[k].end - toks[k].start) |->
                                  s[toks[k].start + x]]

\* C6: on either tokenizer path the tokens tile the normalized string.
C6_TokensTile ==
    /\ OldTokenized => Tiles(oldTokens, Normalize(oldTextInput))
    /\ NewTokenized => Tiles(newTokens, Normalize(newTextInput))

\* C6's case: the regex fallback has tokenized a string of several tokens
\* after the segmenter raised.
C6_Witness ==
    /\ NewTokenized
    /\ segmenter = "throws"
    /\ Len(oldTokens) >= 3
    /\ Len(newTokens) >= 2

\* The old string with each diff's range replaced by its newText, from the
\* k-th diff and the offset cursor on.
RECURSIVE PatchFrom(_, _, _, _)
PatchFrom(s, ds, k, cursor) ==
    IF k > Len(ds) THEN Slice(s, cursor, Len(s))
    ELSE (Slice(s, cursor, ds[k].position.startIndex) \o ds[k].newText)
         \o PatchFrom(s, ds, k + 1, ds[k].position.endIndex)

\* The diffs' ranges lie in s, in order and pairwise disjoint.
RangesDisjoint(s, ds) ==
    /\ \A k \in 1..Len(ds) :
           /\ 0 <= ds[k].position.startIndex
           /\ ds[k].position.startIndex <= ds[k].position.endIndex
           /\ ds[k].position.endIndex <= Len(s)
    /\ \A k \in 1..(Len(ds) - 1) :
           ds[k].position.endIndex <= ds[k + 1].position.startIndex

\* C7: replacing every diff's range of the normalized old string by the
\* diff's newText yields the normalized new string.
C7_PatchRoundTrip ==
    Returned =>
        /\ RangesDisjoint(Normalize(oldTextInput), diffs)
        /\ PatchFrom(Normalize(oldTextInput), diffs, 1, 0) = Normalize(newTextInput)

\* C7's case: two diffs are returned, and normalization has changed the old
\* string the positions index.
C7_Witness ==
    /\ Returned
    /\ Len(diffs) >= 2
    /\ Normalize(oldTextInput) # oldTextInput

\* The length of a longest common subsequence of two sequences of values.
RECURSIVE LcsLength(_, _)
LcsLength(x, y) ==
    IF Len(x) = 0 \/ Len(y) = 0 THEN 0
    ELSE IF x[1] = y[1] THEN 1 + LcsLength(Tail(x), Tail(y))
    ELSE Max(LcsLength(Tail(x), y), LcsLength(x, Tail(y)))

ValuesOf(toks) == [k \in 1..Len(toks) |-> toks[k].value]

\* C8: the pairs of lcsIndicesTokens increase strictly in both components,
\* match equal token values, and are as many as a longest common
\* subsequence of the token values has elements.
C8_LcsPairs ==
    Aligned =>
        /\ \A k \in 1..Len(lcs) :
               /\ lcs[k][1] \in 0..(Len(oldTokens) - 1)
               /\ lcs[k][2] \in 0..(Len(newTokens) - 1)
               /\ oldTokens[lcs[k][1] + 1].value = newTokens[lcs[k][2] + 1].value
        /\ \A k \in 1..(Len(lcs) - 1) :
               lcs[k][1] < lcs[k + 1][1] /\ lcs[k][2] < lcs[k + 1][2]
        /\ Len(lcs) = LcsLength(ValuesOf(oldTokens), ValuesOf(newTokens))

\* C8's case: the walk has met a mismatch where advancing the new pointer is
\* the only way to keep a match (the first old token matches a later new
\* token) and one where the old pointer advances.
C8_Witness ==
    /\ Aligned
    /\ Len(lcs) >= 2
    /\ lcs[1][1] = 0
    /\ lcs[1][2] > 0
    /\ lcs[2][1] > 1

\* The Levenshtein distance of two strings: unit-cost insertions, deletions
\* and substitutions, code units compared exactly.
RECURSIVE EditDistance(_, _)
EditDistance(x, y) ==
    IF Len(x) = 0 THEN Len(y)
    ELSE IF Len(y) = 0 THEN Len(x)
    ELSE IF x[1] = y[1] THEN EditDistance(Tail(x), Tail(y))
    ELSE 1 + Min(EditDistance(Tail(x), Tail(y)),
                 Min(EditDistance(Tail(x), y), EditDistance(x, Tail(y))))

\* The word tokens among the tokens start..end-1 (0-based) of toks.
WordIndices(toks, start, end) ==
    {k \in (start + 1)..end : toks[k].kind = "word"}

\* The decision rule on a range with the given texts.  d <= ceil(0.3 * maxLen)
\* is stated over the integers: 10 * d < 3 * maxLen + 10.
RuleChangeType(ch, oldTxt, newTxt) ==
    LET oldW == WordIndices(oldTokens, ch.oldTokStart, ch.oldTokEnd)
        newW == WordIndices(newTokens, ch.newTokStart, ch.newTokEnd)
    IN  IF oldTxt = <<>> /\ newTxt # <<>> THEN "insert"
        ELSE IF newTxt = <<>> /\ oldTxt # <<>> THEN "delete"
        ELSE IF /\ Cardinality(oldW) = 1
                /\ Cardinality(newW) = 1
                /\ LET ow == oldTokens[CHOOSE k \in oldW : TRUE].value
                       nw == newTokens[CHOOSE k \in newW : TRUE].value
                       d == EditDistance(ow, nw)
                       maxLen == Max(Len(ow), Len(nw))
                   IN  0 < d /\ (d <= 2 \/ 10 * d < 3 * maxLen + 10)
        THEN "spell-correction"
        ELSE "replace"

\* The text a range spans in the old and in the new string.
OldTextOf(ch) ==
    IF ch.oldTokEnd > ch.oldTokStart
    THEN Slice(oldText, oldTokens[ch.oldTokStart + 1].start, oldTokens[ch.oldTokEnd].end)
    ELSE <<>>

NewTextOf(ch) ==
    IF ch.newTokEnd > ch.newTokStart
    THEN Slice(newText, newTokens[ch.newTokStart + 1].start, newTokens[ch.newTokEnd].end)
    ELSE <<>>

\* The merged ranges whose old and new texts differ: those that are reported.
ReportedRanges == SelectSeq(mergedChanges, LAMBDA ch : OldTextOf(ch) # NewTextOf(ch))

\* The only diff returned for the arguments old and new has the given type.
OneDiffOfType(old, new, type) ==
    (Returned /\ oldTextInput = old /\ newTextInput = new) =>
        Len(diffs) = 1 /\ diffs[1].changeType = type

\* C4: every returned diff carries the change type the decision rule gives
\* its merged range, and the four documented inputs give one diff of the
\* documented type.
C4_ChangeTypeByRule ==
    /\ OneDiffOfType(<<>>, <<"n","e","w">>, "insert")
    /\ OneDiffOfType(<<"o","l","d">>, <<>>, "delete")
    /\ OneDiffOfType(<<"c","o","l","o","r">>, <<"c","o","l","o","u","r">>, "spell-correction")
    /\ OneDiffOfType(<<"c","a","t">>, <<"d","o","g">>, "replace")
    /\ (Returned /\ oldText # newText) =>
        /\ Len(diffs) = Len(ReportedRanges)
        /\ \A k \in 1..Len(diffs) :
               /\ diffs[k].oldText = OldTextOf(ReportedRanges[k])
               /\ diffs[k].newText = NewTextOf(ReportedRanges[k])
               /\ diffs[k].changeType =
                      RuleChangeType(ReportedRanges[k], diffs[k].oldText, diffs[k].newText)
               /\ diffs[k].changeType = "insert" <=>
                      (diffs[k].oldText = <<>> /\ diffs[k].newText # <<>>)
               /\ diffs[k].changeType = "delete" <=>
                      (diffs[k].newText = <<>> /\ diffs[k].oldText # <<>>)

\* C4's case: a single word of seven code units changed in three of them is
\* returned as a spell-correction (distance 3, threshold ceil(2.1) = 3).
C4_Witness ==
    /\ Returned
    /\ Len(diffs) = 1
    /\ diffs[1].changeType = "spell-correction"
    /\ Len(diffs[1].oldText) = 7
    /\ EditDistance(diffs[1].oldText, diffs[1].newText) = 3

\* A word token lies strictly between the consecutive ranges r and s on the
\* old side or on the new side.
WordBetween(r, s) ==
    \/ WordIndices(oldTokens, r.oldTokEnd, s.oldTokStart) # {}
    \/ WordIndices(newTokens, r.newTokEnd, s.newTokStart) # {}

\* The merged range that covers the range ch.
Covers(mr, ch) ==
    /\ mr.oldTokStart <= ch.oldTokStart
    /\ ch.oldTokEnd <= mr.oldTokEnd
    /\ mr.newTokStart <= ch.newTokStart
    /\ ch.newTokEnd <= mr.newTokEnd

\* C5: consecutive merged ranges have a word token between them; change
\* ranges with only separators between them lie in one merged range; and
\* "quick brown fox" -> "fast dark wolf" is returned as one replace diff.
C5_MergeComplete ==
    /\ Merged =>
           /\ \A k \in 1..(Len(mergedChanges) - 1) :
                  WordBetween(mergedChanges[k], mergedChanges[k + 1])
           /\ \A k \in 1..(Len(changes) - 1) :
                  ~WordBetween(changes[k], changes[k + 1]) =>
                      \E x \in 1..Len(mergedChanges) :
                          /\ Covers(mergedChanges[x], changes[k])
                          /\ Covers(mergedChanges[x], changes[k + 1])
    /\ (Returned /\ oldTextInput = QuickBrownFox /\ newTextInput = FastDarkWolf) =>
           diffs = <<[oldText |-> QuickBrownFox,
                      position |-> [startIndex |-> 0, endIndex |-> 15],
                      newText |-> FastDarkWolf,
                      changeType |-> "replace"]>>

\* C5's case: three change ranges with a space between each two have been
\* merged into one.
C5_Witness ==
    /\ Merged
    /\ Len(changes) = 3
    /\ Len(mergedChanges) = 1

\* No two consecutive tokens have the same kind.
KindsAlternate(toks) ==
    \A k \in 1..(Len(toks) - 1) : toks[k].kind # toks[k + 1].kind

\* Every code unit of a token is of the token's class.
OneClass(toks) ==
    \A k \in 1..Len(toks) :
        \A x \in 1..Len(toks[k].value) :
            IsWordChar(toks[k].value[x]) <=> toks[k].kind = "word"

\* C9 as stated: on both tokenizer paths no two consecutive tokens have the
\* same kind.
C9_AlternateOnBothPaths ==
    /\ OldTokenized => KindsAlternate(oldTokens)
    /\ NewTokenized => KindsAlternate(newTokens)

\* C9 amended: on the regex fallback path every token is a run of one class
\* and no two consecutive tokens have the same kind.
C9_AlternateOnRegexPath ==
    segmenter # "available" =>
        /\ OldTokenized => KindsAlternate(oldTokens) /\ OneClass(oldTokens)
        /\ NewTokenized => KindsAlternate(newTokens) /\ OneClass(newTokens)

\* C9's case: the regex fallback has produced two tokens of a string that
\* begins with a separator run of two code units.
C9_Witness ==
    /\ OldTokenized
    /\ segmenter = "absent"
    /\ Len(oldTokens) = 2
    /\ Len(oldTokens[1].value) = 2
    /\ oldTokens[1].kind = "sep"

\* C10: the module-level matcher is at position 0 in every state between the
\* steps of a call and between calls, and a call's result is the one a
\* first call in a fresh module gives for the same arguments in that host.
C10_NoStateAcrossCalls ==
    /\ lastIndex = 0
    /\ Returned => diffs = getTextDiffs(oldTextInput, newTextInput, segmenter, 0)

\* C10's case: a call that follows two regex-tokenized calls has returned a
\* diff.
C10_Witness ==
    /\ Returned
    /\ calls = 2
    /\ segmenter = "absent"
    /\ Len(diffs) > 0

=============================================================================
